---- MODULE Spec2Model ----
(***************************************************************************)
(* The two drafts of the "16 Parchi Dhap" turn engine.                     *)
(*   Variant A: src/game.py, class ParchiDhapGame (pass-and-swap queue).   *)
(*   Variant B: src/bot.py, class ParchiDhapGame and the bot's handlers    *)
(*              (give / accept-reject handshake).                          *)
(* The variable "variant" says which draft a behaviour runs; the fields of *)
(* the other draft keep their default values.                              *)
(***************************************************************************)
EXTENDS Integers, Sequences, FiniteSets, TLC

VARIABLES
    variant,               \* "A": game.py, "B": bot.py
    games,                 \* bot.py: chat_id in games
    players,               \* the ordered roster (a list of user ids)
    n,                     \* game.py: len(players); bot.py: number of card sets
    hands,                 \* game.py: dict user id -> list of cards
    previous_card,         \* game.py
    current_index,         \* game.py (0-based, as in the source)
    winner,                \* both drafts
    deck,                  \* bot.py: the shuffled deck
    player_cards,          \* bot.py: dict user id -> list of cards
    current_player_index,  \* bot.py (0-based)
    game_started,          \* bot.py
    pending_card,          \* bot.py
    pending_from_player,   \* bot.py
    game_finished,         \* bot.py
    moves                  \* completed moves of the current game (bounds the run)

gameA == <<players, n, hands, previous_card, current_index, winner>>
gameB == <<players, n, deck, player_cards, current_player_index, game_started,
           pending_card, pending_from_player, game_finished, winner>>
vars == <<variant, games, players, n, hands, previous_card, current_index, winner,
          deck, player_cards, current_player_index, game_started, pending_card,
          pending_from_player, game_finished, moves>>

----------------------------------------------------------------------------
\* Bounds of the model: the passes of a Variant A game, the resolved turns of
\* a Variant B game (MaxLongTurns in the long play of SpecLong), and the
\* shuffle outcomes 0..MaxShuffle.
MaxPasses == 5
MaxTurns == 3
MaxShuffle == 2
MaxLongTurns == 9

\* Program constants: Python's None (no card, no player: cards and user ids
\* are positive), the card-set counts /newgame accepts (bot.py line 176; the
\* roster sizes of a Variant A game are the same 4..6), the players start_game
\* needs (line 55) and the cards dealt to a player (line 63; game.py line 12).
None == 0
MinSets == 4
MaxSets == 6
MinPlayers == 4
CardsPerPlayer == 4

\* The cards a request may name: every rank and one card that is in no deck.
\* The users who send requests: every possible player and one outsider.
Cards == 1..(MaxSets + 1)
Users == 1..(MaxSets + 1)

----------------------------------------------------------------------------
\* Python list and set helpers.
Contains(s, x) == \E i \in 1..Len(s) : s[i] = x

SetOf(s) == {s[i] : i \in 1..Len(s)}

IndexOf(s, x) == CHOOSE i \in 1..Len(s) : s[i] = x /\ \A j \in 1..(i - 1) : s[j] # x

\* list.remove(x): the first occurrence goes.
ListRemove(s, x) == SubSeq(s, 1, IndexOf(s, x) - 1) \o SubSeq(s, IndexOf(s, x) + 1, Len(s))

\* list[a:b] with 0-based bounds, clipped to the list as Python clips a slice.
Slice(s, a, b) ==
    LET hi == IF b < Len(s) THEN b ELSE Len(s)
    IN  IF a >= hi THEN <<>> ELSE SubSeq(s, a + 1, hi)

\* list.count(x).
Count(s, x) == Cardinality({i \in 1..Len(s) : s[i] = x})

----------------------------------------------------------------------------
\* The deck before the shuffle: four copies of each rank 1..k, in rank order.
SortedDeck(k) == [i \in 1..(4 * k) |-> ((i - 1) \div 4) + 1]

\* random.shuffle: a permutation of the list.  The outcomes are drawn from a
\* family of permutations i |-> (cut + i * stride) mod L with stride coprime
\* to L (L is 16, 20 or 24): outcome 0 reverses the deck, outcome 1 mixes the
\* ranks (stride 7), outcomes 2 and 3 are these two cut by one card, and so on.
Shuffle(d, k) ==
    LET L      == Len(d)
        stride == IF k % 2 = 0 THEN L - 1 ELSE 7
        cut    == k \div 2
    IN  [i \in 1..L |-> d[((cut + i * stride) % L) + 1]]

----------------------------------------------------------------------------
\* Variant A: src/game.py

DealPopSameCards(d, i) == [j \in 1..CardsPerPlayer |-> d[Len(d) - (j - 1)]]

\* __init__, line 12: each player in roster order pops four cards off the end
\* of the shuffled deck; i is the player's 1-based place in the roster.
DealPop(d, i) == [j \in 1..CardsPerPlayer |-> d[Len(d) - CardsPerPlayer * (i - 1) - (j - 1)]]

InitA ==
    \E N \in MinSets..MaxSets, k \in 0..MaxShuffle :
        /\ variant = "A"
        /\ players = [i \in 1..N |-> i]
        /\ n = N
        /\ hands = [i \in 1..N |-> DealPop(Shuffle(SortedDeck(N), k), i)]
        /\ previous_card = None
        /\ current_index = 0
        /\ winner = None
        /\ games = FALSE
        /\ deck = <<>>
        /\ player_cards = <<>>
        /\ current_player_index = 0
        /\ game_started = FALSE
        /\ pending_card = None
        /\ pending_from_player = None
        /\ game_finished = FALSE
        /\ moves = 0

get_current == players[current_index + 1]

NotYourTurnNeverChecked(user_id) == FALSE

\* pass_card, line 20: the turn check.
NotYourTurn(user_id) == user_id # get_current

HandAfterPassNoReceive(hand, card, prev) == ListRemove(hand, card)

\* pass_card, lines 25-27: the card leaves the hand, the previous card joins it.
HandAfterPass(hand, card, prev) ==
    IF prev # None THEN Append(ListRemove(hand, card), prev)
    ELSE ListRemove(hand, card)

WinnerAfterPassFullHandOnly(hand, user_id, old) ==
    IF Len(hand) = CardsPerPlayer /\ Cardinality(SetOf(hand)) = 1 THEN user_id ELSE old

\* pass_card, lines 29-30.
WinnerAfterPass(hand, user_id, old) ==
    IF Cardinality(SetOf(hand)) = 1 THEN user_id ELSE old

NextIndexNoWrap(i, len) == i + 1

NextIndexShortCycle(i, len) == (i + 1) % (len - 1)

\* pass_card, line 31.
NextIndex(i, len) == (i + 1) % len

\* pass_card, lines 20-24: how the call ends, "ok" when it goes on to line 25.
pass_card_outcome(user_id, card) ==
    IF NotYourTurn(user_id) THEN "ValueError: Not your turn"
    ELSE IF user_id \notin DOMAIN hands THEN "KeyError"
    ELSE IF ~Contains(hands[user_id], card) THEN "ValueError: You do not have that card"
    ELSE "ok"

\* pass_card, lines 19-32.
PassCard(user_id, card) ==
    /\ variant = "A"
    /\ IF pass_card_outcome(user_id, card) = "ok"
       THEN /\ moves < MaxPasses
            /\ hands' = [hands EXCEPT
                   ![user_id] = HandAfterPass(hands[user_id], card, previous_card)]
            /\ previous_card' = card
            /\ winner' = WinnerAfterPass(hands'[user_id], user_id, winner)
            /\ current_index' = NextIndex(current_index, n)
            /\ moves' = moves + 1
            /\ UNCHANGED <<players, n>>
       ELSE UNCHANGED <<gameA, moves>>
    /\ UNCHANGED <<variant, games, deck, player_cards, current_player_index,
                   game_started, pending_card, pending_from_player, game_finished>>

----------------------------------------------------------------------------
\* Variant B: src/bot.py

InitB ==
    /\ variant = "B"
    /\ games = FALSE
    /\ players = <<>>
    /\ n = MinSets
    /\ hands = <<>>
    /\ previous_card = None
    /\ current_index = 0
    /\ winner = None
    /\ deck = <<>>
    /\ player_cards = <<>>
    /\ current_player_index = 0
    /\ game_started = FALSE
    /\ pending_card = None
    /\ pending_from_player = None
    /\ game_finished = FALSE
    /\ moves = 0

\* create_deck, lines 37-43: n sets of four identical cards, shuffled.
create_deck(sets, k) == Shuffle(SortedDeck(sets), k)

\* new_game, lines 173-184: how the command ends, "ok" when it goes on to
\* create the game.
new_game_outcome(arg) ==
    IF arg < MinSets \/ arg > MaxSets THEN "Number of card sets must be between 4 and 6!"
    ELSE IF games THEN "A game is already active in this chat!"
    ELSE "ok"

\* new_game, lines 169-187, with ParchiDhapGame.__init__, lines 20-35
\* (/newgame without an argument is /newgame 4).
NewGame(arg) ==
    /\ variant = "B"
    /\ IF new_game_outcome(arg) = "ok"
       THEN \E k \in 0..MaxShuffle :
            /\ games' = TRUE
            /\ n' = arg
            /\ players' = <<>>
            /\ deck' = create_deck(arg, k)
            /\ player_cards' = <<>>
            /\ current_player_index' = 0
            /\ game_started' = FALSE
            /\ pending_card' = None
            /\ pending_from_player' = None
            /\ game_finished' = FALSE
            /\ winner' = None
            /\ moves' = 0
       ELSE UNCHANGED <<games, gameB, moves>>
    /\ UNCHANGED <<variant, hands, previous_card, current_index>>

add_player_allows_again(user_id) == Len(players) < n

\* add_player, lines 45-51: what it returns.
add_player_ok(user_id) == ~Contains(players, user_id) /\ Len(players) < n

\* join_game, lines 195-207: how the command ends.
join_game_outcome(user_id) ==
    IF ~games THEN "No active game! Use /newgame to create one."
    ELSE IF game_started THEN "Game has already started!"
    ELSE IF add_player_ok(user_id) THEN "ok"
    ELSE "You're already in the game or it's full!"

\* join_game, lines 189-207, with add_player, lines 45-51.
JoinGame(user_id) ==
    /\ variant = "B"
    /\ IF join_game_outcome(user_id) = "ok"
       THEN players' = Append(players, user_id)
       ELSE UNCHANGED players
    /\ UNCHANGED <<variant, games, n, hands, previous_card, current_index, winner,
                   deck, player_cards, current_player_index, game_started,
                   pending_card, pending_from_player, game_finished, moves>>

\* deal_cards, lines 61-67: player i (0-based) gets deck[4i : 4i+4].
deal_cards ==
    [pid \in SetOf(players) |->
        Slice(deck, (IndexOf(players, pid) - 1) * CardsPerPlayer,
                    (IndexOf(players, pid) - 1) * CardsPerPlayer + CardsPerPlayer)]

\* start_game, lines 53-59: what it returns.
start_game_ok == Len(players) >= MinPlayers /\ ~game_started

\* start_game (the handler), lines 213-233: how the command ends.
start_game_outcome ==
    IF ~games THEN "No active game! Use /newgame to create one."
    ELSE IF start_game_ok THEN "ok"
    ELSE "Need at least 4 players to start!"

\* start_game (the handler), lines 209-233, with start_game, lines 53-59.
StartGame ==
    /\ variant = "B"
    /\ IF start_game_outcome = "ok"
       THEN /\ player_cards' = deal_cards
            /\ game_started' = TRUE
       ELSE UNCHANGED <<player_cards, game_started>>
    /\ UNCHANGED <<variant, games, players, n, hands, previous_card, current_index,
                   winner, deck, current_player_index, pending_card,
                   pending_from_player, game_finished, moves>>

\* get_current_player, lines 69-71 (IndexError on an empty roster).
get_current_player == players[current_player_index + 1]

\* get_next_player, lines 73-76 (ZeroDivisionError on an empty roster).
get_next_player == players[((current_player_index + 1) % Len(players)) + 1]

give_card_unchecked(card) == TRUE

\* give_card, lines 78-87: what it returns (KeyError before the deal).
give_card_ok(card) == Contains(player_cards[get_current_player], card)

\* button_callback, lines 291-322: how a "give_<card>" request of user_id
\* ends, "ok" when give_card returned True.
give_button_outcome(user_id, card) ==
    IF ~games THEN "No active game!"
    ELSE IF Len(players) = 0 THEN "IndexError"
    ELSE IF user_id # get_current_player THEN "It's not your turn!"
    ELSE IF get_current_player \notin DOMAIN player_cards THEN "KeyError"
    ELSE IF give_card_ok(card) THEN "ok"
    ELSE "Invalid card selection!"

\* button_callback, lines 297-322, with give_card, lines 78-87.
GiveButton(user_id, card) ==
    /\ variant = "B"
    /\ IF give_button_outcome(user_id, card) = "ok"
       THEN /\ pending_card' = card
            /\ pending_from_player' = get_current_player
       ELSE UNCHANGED <<pending_card, pending_from_player>>
    /\ UNCHANGED <<variant, games, players, n, hands, previous_card, current_index,
                   winner, deck, player_cards, current_player_index, game_started,
                   game_finished, moves>>

check_win_needs_pair(cards) == Len(cards) >= 2 /\ Cardinality(SetOf(cards)) = 1

\* check_win, lines 115-120.
check_win(cards) == IF Len(cards) = 0 THEN FALSE ELSE Cardinality(SetOf(cards)) = 1

\* The hands after an accept that leaves the giver's hand as it was.
CardsAfterAcceptKeepsCopy ==
    [player_cards EXCEPT ![get_next_player] = Append(@, pending_card)]

\* The hands after an accept that takes every copy of the pending card out of
\* the giver's hand.
CardsAfterAcceptRemoveAll ==
    LET given == [player_cards EXCEPT
                    ![get_current_player] =
                        SelectSeq(@, LAMBDA x : x # pending_card)]
    IN  [given EXCEPT ![get_next_player] = Append(@, pending_card)]

\* receive_card, lines 97-100: the hands after an accept.
CardsAfterAccept ==
    LET given == [player_cards EXCEPT
                    ![get_current_player] = ListRemove(@, pending_card)]
    IN  [given EXCEPT ![get_next_player] = Append(@, pending_card)]

receive_card_unchecked == TRUE

\* receive_card, lines 91-92: what it returns.
receive_card_ok == pending_card # None

\* receive_card, lines 94-113, with a card pending.
receive_card(accept) ==
    LET cards == IF accept THEN CardsAfterAccept ELSE player_cards
        won   == accept /\ check_win(cards[get_current_player])
    IN  /\ player_cards' = cards
        /\ IF won
           THEN /\ winner' = get_current_player
                /\ game_finished' = TRUE
                /\ UNCHANGED <<current_player_index, pending_card, pending_from_player>>
           ELSE /\ current_player_index' = (current_player_index + 1) % Len(players)
                /\ pending_card' = None
                /\ pending_from_player' = None
                /\ UNCHANGED <<winner, game_finished>>

\* button_callback, lines 291-341: how an "accept_card" or "reject_card"
\* request of user_id ends, "ok" when receive_card was called.
resolve_button_outcome(user_id) ==
    IF ~games THEN "No active game!"
    ELSE IF Len(players) = 0 THEN "ZeroDivisionError"
    ELSE IF user_id # get_next_player THEN "This is not for you!"
    ELSE "ok"

\* button_callback, lines 324-341, with receive_card, lines 89-113; a game
\* that is finished after the call is deleted from games (line 333).
\* The call is only taken while fewer than bound turns were resolved.
ResolveWithin(user_id, accept, bound) ==
    /\ variant = "B"
    /\ IF resolve_button_outcome(user_id) = "ok" /\ receive_card_ok
       THEN /\ moves < bound
            /\ receive_card(accept)
            /\ moves' = moves + 1
            /\ games' = ~game_finished'
       ELSE UNCHANGED <<games, player_cards, winner, game_finished,
                        current_player_index, pending_card, pending_from_player, moves>>
    /\ UNCHANGED <<variant, players, n, hands, previous_card, current_index, deck,
                   game_started>>

\* button_callback, lines 324-341, in a game of at most MaxTurns resolved turns.
ResolveButton(user_id, accept) == ResolveWithin(user_id, accept, MaxTurns)

----------------------------------------------------------------------------
Init == InitA \/ InitB

\* The requests are drawn from every player of the roster and one outsider
\* (user ids are given in the order of joining), and from every rank of the
\* game and one card that is in no deck.
Next ==
    \/ \E u \in Users, c \in Cards :
          u <= Len(players) + 1 /\ c <= n + 1 /\ PassCard(u, c)
    \/ \E arg \in (MinSets - 1)..(MaxSets + 1) : NewGame(arg)
    \/ \E u \in Users : u <= Len(players) + 1 /\ JoinGame(u)
    \/ StartGame
    \/ \E u \in Users, c \in Cards :
          u <= Len(players) + 1 /\ c <= n + 1 /\ GiveButton(u, c)
    \/ \E u \in Users, a \in BOOLEAN :
          u <= Len(players) + 1 /\ ResolveButton(u, a)

Spec == Init /\ [][Next]_vars

\* Long play of Variant B: a game of MinSets card sets in which the buttons
\* are pressed by the players they are meant for, up to MaxLongTurns resolved
\* turns, so that the turn goes round the table more than once.
NextLong ==
    \/ NewGame(MinSets)
    \/ \E u \in Users : u <= Len(players) + 1 /\ JoinGame(u)
    \/ StartGame
    \/ \E c \in Cards :
          games /\ game_started /\ c <= n /\ GiveButton(get_current_player, c)
    \/ \E a \in BOOLEAN :
          games /\ game_started /\ ResolveWithin(get_next_player, a, MaxLongTurns)

SpecLong == InitB /\ [][NextLong]_vars

----------------------------------------------------------------------------
\* Helpers of the properties.

\* How many cards of rank r the hands h hold together, over the players ps.
RECURSIVE SumCount(_, _, _)
SumCount(h, ps, r) ==
    IF ps = {} THEN 0
    ELSE LET p == CHOOSE x \in ps : TRUE
         IN  Count(h[p], r) + SumCount(h, ps \ {p}, r)

\* How many cards the hands h hold together, over the players ps.
RECURSIVE SumLen(_, _)
SumLen(h, ps) ==
    IF ps = {} THEN 0
    ELSE LET p == CHOOSE x \in ps : TRUE
         IN  Len(h[p]) + SumLen(h, ps \ {p})

\* A hand is non-empty and all its cards are equal.
AllSame(h) == Len(h) > 0 /\ \A i, j \in 1..Len(h) : h[i] = h[j]

----------------------------------------------------------------------------
\* C1: Variant A initialisation.  A constructed game (no pass applied yet)
\* of N players, N in 4..6, has exactly N hands of exactly 4 cards, the hands
\* together hold four copies of each rank 1..N and nothing else, and
\* current_index = 0, previous_card = None, winner = None.
C1_InitDeal ==
    (variant = "A" /\ moves = 0) =>
        /\ Len(players) \in MinSets..MaxSets
        /\ DOMAIN hands = SetOf(players)
        /\ Cardinality(DOMAIN hands) = Len(players)
        /\ \A p \in DOMAIN hands : Len(hands[p]) = 4
        /\ \A p \in DOMAIN hands : \A i \in 1..Len(hands[p]) :
               hands[p][i] \in 1..Len(players)
        /\ \A r \in 1..Len(players) : SumCount(hands, DOMAIN hands, r) = 4
        /\ current_index = 0
        /\ previous_card = None
        /\ winner = None

\* A six-player game as constructed from a shuffle that mixes the ranks.
C1_Witness ==
    /\ variant = "A"
    /\ moves = 0
    /\ Len(players) = 6
    /\ \E p \in DOMAIN hands : Cardinality(SetOf(hands[p])) > 1

\* C2: Variant A card conservation.  In every reachable state the cards of
\* all hands together with previous_card (when not None) are the initial
\* deck: four of each rank 1..N, so 4 * len(players) cards in all.
C2_CardConservation ==
    variant = "A" =>
        /\ \A r \in Cards :
               SumCount(hands, DOMAIN hands, r) + (IF previous_card = r THEN 1 ELSE 0)
                   = (IF r <= Len(players) THEN 4 ELSE 0)
        /\ previous_card \in {None} \cup Cards
        /\ SumLen(hands, DOMAIN hands) + (IF previous_card # None THEN 1 ELSE 0)
               = 4 * Len(players)

\* Passes were applied, a card is in transit, the turn has passed the first
\* player again, and a call that fails is at hand (a rank the current player
\* does not hold).
C2_Witness ==
    /\ variant = "A"
    /\ moves > Len(players)
    /\ previous_card # None
    /\ \E c \in 1..Len(players) : ~Contains(hands[get_current], c)

\* C3: a move attempted by the wrong actor is rejected and changes nothing.
\* Variant A: pass_card by a user who is not the player at current_index
\* raises "Not your turn" and leaves hands, previous_card, current_index and
\* winner as they were.  Variant B: a give request from a user who is not the
\* current player, and an accept or reject request from a user who is not the
\* next player, are answered as such and leave player_cards, pending_card,
\* current_player_index, winner and game_finished as they were.
C3_WrongActorRejected ==
    /\ [](variant = "A" =>
             \A u \in Users \ {get_current}, c \in Cards :
                 pass_card_outcome(u, c) = "ValueError: Not your turn")
    /\ []((variant = "B" /\ games /\ Len(players) > 0) =>
             /\ \A u \in Users \ {get_current_player}, c \in Cards :
                    give_button_outcome(u, c) = "It's not your turn!"
             /\ \A u \in Users \ {get_next_player} :
                    resolve_button_outcome(u) = "This is not for you!")
    /\ [][ /\ variant = "A" =>
                  \/ UNCHANGED <<hands, previous_card, current_index, winner>>
                  \/ ~ \E u \in Users \ {get_current}, c \in Cards : PassCard(u, c)
           /\ (variant = "B" /\ games /\ Len(players) > 0) =>
                  \/ UNCHANGED <<player_cards, pending_card, current_player_index,
                                 winner, game_finished>>
                  \/ /\ ~ \E u \in Users \ {get_current_player}, c \in Cards :
                              GiveButton(u, c)
                     /\ ~ \E u \in Users \ {get_next_player}, a \in BOOLEAN :
                              ResolveButton(u, a)
         ]_vars

\* A started Variant B game after a resolved turn, with a card pending and
\* players at the table who are neither the giver nor the recipient.
C3_Witness ==
    /\ variant = "B"
    /\ games
    /\ game_started
    /\ moves >= 1
    /\ pending_card # None
    /\ \E u \in SetOf(players) : u # get_current_player /\ u # get_next_player

\* C4: a move of a card the acting player does not hold is rejected
\* atomically.  Variant A: pass_card by the current player with a card not in
\* their hand raises and leaves hands, previous_card, current_index and winner
\* as they were.  Variant B: give_card with a card not in the current player's
\* hand returns False and leaves player_cards, pending_card,
\* pending_from_player and current_player_index as they were.
C4_CardNotHeldRejected ==
    /\ [](variant = "A" =>
             \A c \in Cards :
                 ~Contains(hands[get_current], c) =>
                     pass_card_outcome(get_current, c)
                         = "ValueError: You do not have that card")
    /\ []((variant = "B" /\ games /\ game_started) =>
             \A c \in Cards :
                 ~Contains(player_cards[get_current_player], c) =>
                     /\ ~give_card_ok(c)
                     /\ give_button_outcome(get_current_player, c)
                            = "Invalid card selection!")
    /\ [][ /\ variant = "A" =>
                  \/ UNCHANGED <<hands, previous_card, current_index, winner>>
                  \/ ~ \E c \in Cards : /\ ~Contains(hands[get_current], c)
                                        /\ PassCard(get_current, c)
           /\ (variant = "B" /\ games /\ game_started) =>
                  \/ UNCHANGED <<player_cards, pending_card, pending_from_player,
                                 current_player_index>>
                  \/ ~ \E c \in Cards :
                           /\ ~Contains(player_cards[get_current_player], c)
                           /\ GiveButton(get_current_player, c)
         ]_vars

\* A started Variant B game with a card pending, in which the current player
\* lacks a rank of the deck and holds another than the pending one.
C4_Witness ==
    /\ variant = "B"
    /\ games
    /\ game_started
    /\ pending_card # None
    /\ \E c \in 1..n : ~Contains(player_cards[get_current_player], c)
    /\ \E c \in 1..n : c # pending_card /\ Contains(player_cards[get_current_player], c)

\* C5: Variant A turn order.  Every successful pass_card, winner or not,
\* changes current_index to (old current_index + 1) mod N; after the last
\* player the index is 0 again.
C5_TurnOrder ==
    /\ [](variant = "A" =>
             \A c \in Cards :
                 Contains(hands[get_current], c) =>
                     pass_card_outcome(get_current, c) = "ok")
    /\ [][ variant = "A" =>
               \/ /\ current_index' = (current_index + 1) % Len(players)
                  /\ (current_index = Len(players) - 1 => current_index' = 0)
               \/ ~ \E c \in Cards : /\ Contains(hands[get_current], c)
                                     /\ PassCard(get_current, c)
         ]_vars

\* The turn has gone round the table: the last player passed and the index
\* is back at 0, with a winner declared on the way.
C5_Witness ==
    /\ variant = "A"
    /\ moves = Len(players)
    /\ current_index = 0
    /\ winner # None

\* C6: once a winner is set the Variant A game is terminal: no later
\* pass_card changes hands, previous_card or current_index, and winner never
\* changes.
C6_WinnerTerminal ==
    [][ (variant = "A" /\ winner # None) =>
            UNCHANGED <<hands, previous_card, current_index, winner>> ]_vars

\* C7: the Variant A scenario.  With players [A,B,C,D] = [1,2,3,4] and hands
\* A=[1,1,1,1], B=[2,2,2,2], C=[3,3,3,3], D=[4,4,4,4]: after A passes card 1,
\* A's hand is [1,1,1], previous_card is 1 and the turn is B's; after B then
\* passes card 2, B's hand is [2,2,2,1] and the turn is C's; no winner is
\* declared by either move.
C7_Scenario ==
    [][ LET start  == /\ variant = "A"
                      /\ players = <<1, 2, 3, 4>>
                      /\ hands = <<(<<1, 1, 1, 1>>), (<<2, 2, 2, 2>>),
                                   (<<3, 3, 3, 3>>), (<<4, 4, 4, 4>>)>>
                      /\ previous_card = None
                      /\ current_index = 0
                      /\ winner = None
            afterA == /\ variant = "A"
                      /\ players = <<1, 2, 3, 4>>
                      /\ hands = <<(<<1, 1, 1>>), (<<2, 2, 2, 2>>),
                                   (<<3, 3, 3, 3>>), (<<4, 4, 4, 4>>)>>
                      /\ previous_card = 1
                      /\ current_index = 1
        IN  /\ (start /\ PassCard(1, 1)) =>
                   /\ hands'[1] = <<1, 1, 1>>
                   /\ previous_card' = 1
                   /\ get_current' = 2
                   /\ winner' = None
            /\ (afterA /\ PassCard(2, 2)) =>
                   /\ hands'[2] = <<2, 2, 2, 1>>
                   /\ get_current' = 3
                   /\ winner' = None
      ]_vars

\* C8: win detection is "a non-empty hand with one distinct value".  Variant
\* A: a successful pass_card by p makes p the winner if p's hand after the
\* discard and the receipt of previous_card is non-empty and all equal, and
\* leaves winner as it was otherwise.  Variant B: check_win of a player is
\* true exactly when the player's hand is non-empty and all equal.
C8_WinDetection ==
    /\ [][ variant = "A" =>
               \/ /\ AllSame(hands'[get_current]) => winner' = get_current
                  /\ ~AllSame(hands'[get_current]) => winner' = winner
               \/ ~ \E c \in Cards : /\ Contains(hands[get_current], c)
                                     /\ PassCard(get_current, c)
         ]_vars
    /\ [](variant = "B" =>
             \A p \in DOMAIN player_cards :
                 check_win(player_cards[p]) <=> AllSame(player_cards[p]))

\* A Variant A pass has just made the passing player the winner, the first
\* winner of the game, while another player's hand is not a winning one.
C8_Witness ==
    /\ variant = "A"
    /\ winner # None
    /\ AllSame(hands[winner])
    /\ players[((current_index + Len(players) - 1) % Len(players)) + 1] = winner
    /\ \E p \in DOMAIN hands : ~AllSame(hands[p])

\* C9: Variant A steady-state hand size.  Between moves every player's hand
\* holds exactly 4 cards.
C9_HandSize ==
    variant = "A" => \A p \in DOMAIN hands : Len(hands[p]) = 4

\* C10: Variant B give phase.  give_card by the current player with a held
\* card marks that card as pending without changing any hand or the turn
\* pointer, and a give attempted while a card is already pending fails and
\* leaves the pending card in place.
C10_GivePhase ==
    /\ []((variant = "B" /\ games /\ game_started /\ pending_card # None) =>
             \A c \in Cards : give_button_outcome(get_current_player, c) # "ok")
    /\ [][ (variant = "B" /\ games /\ game_started) =>
               \A c \in Cards :
                   GiveButton(get_current_player, c) =>
                       /\ (pending_card = None
                               /\ Contains(player_cards[get_current_player], c)) =>
                              /\ pending_card' = c
                              /\ pending_from_player' = get_current_player
                              /\ UNCHANGED <<player_cards, current_player_index>>
                       /\ pending_card # None =>
                              /\ pending_card' = pending_card
                              /\ UNCHANGED <<player_cards, current_player_index>>
         ]_vars

\* C11: Variant B resolution always completes the turn.  Every receive_card
\* call made while a card is pending, accept or reject, and whether or not
\* the accept makes the giver win, leaves pending_card = None and
\* current_player_index = (old index + 1) mod len(players).
C11_ResolveCompletesTurn ==
    [][ (variant = "B" /\ games /\ game_started /\ pending_card # None) =>
            \/ /\ pending_card' = None
               /\ current_player_index' = (current_player_index + 1) % Len(players)
            \/ ~ \E a \in BOOLEAN : ResolveButton(get_next_player, a)
      ]_vars

\* C12: Variant B resolution effects.  An accept removes exactly one copy of
\* the pending card from the current player's hand, appends it to the next
\* player's hand and leaves every other hand as it was, and a winner is
\* declared only by checking the giver's hand; a reject changes no hand.
C12_ResolutionEffects ==
    [][ (variant = "B" /\ games /\ game_started /\ pending_card # None) =>
            LET giver == get_current_player
                taker == get_next_player
            IN  /\ \/ /\ DOMAIN player_cards' = DOMAIN player_cards
                      /\ Len(player_cards'[giver]) = Len(player_cards[giver]) - 1
                      /\ \A r \in Cards :
                             Count(player_cards'[giver], r)
                                 = Count(player_cards[giver], r)
                                       - (IF r = pending_card THEN 1 ELSE 0)
                      /\ player_cards'[taker] = Append(player_cards[taker], pending_card)
                      /\ \A p \in DOMAIN player_cards \ {giver, taker} :
                             player_cards'[p] = player_cards[p]
                      /\ AllSame(player_cards'[giver]) => winner' = giver
                      /\ ~AllSame(player_cards'[giver]) => winner' = winner
                   \/ ~ResolveButton(taker, TRUE)
                /\ \/ /\ player_cards' = player_cards
                      /\ winner' = winner
                   \/ ~ResolveButton(taker, FALSE)
      ]_vars

\* One accept and one reject were resolved in a running game: exactly one
\* player holds a fifth card, one holds three, and nobody has won.
C12_Witness ==
    /\ variant = "B"
    /\ games
    /\ game_started
    /\ moves = 2
    /\ winner = None
    /\ Cardinality({p \in DOMAIN player_cards : Len(player_cards[p]) = 5}) = 1
    /\ Cardinality({p \in DOMAIN player_cards : Len(player_cards[p]) = 3}) = 1

\* C13: Variant B deal.  When start_game succeeds every joined player
\* receives exactly 4 cards, the whole deck is consumed with no card left
\* undealt, and the hands together hold four copies of each rank
\* 1..len(players), for every card-set count n in 4..6 and every number of
\* joined players.
C13_DealConsumesDeck ==
    (variant = "B" /\ games /\ game_started /\ moves = 0) =>
        /\ DOMAIN player_cards = SetOf(players)
        /\ \A p \in DOMAIN player_cards : Len(player_cards[p]) = CardsPerPlayer
        /\ Len(deck) = CardsPerPlayer * Len(players)
        /\ \A r \in Cards :
               SumCount(player_cards, DOMAIN player_cards, r)
                   = (IF r <= Len(players) THEN 4 ELSE 0)

C15_ResolveWithoutPending ==
    /\ []((variant = "B" /\ pending_card = None) => ~receive_card_ok)
    /\ [][ (variant = "B" /\ games /\ Len(players) > 0 /\ pending_card = None) =>
               \/ UNCHANGED <<player_cards, current_player_index, winner,
                              game_finished, pending_card, games>>
               \/ ~ \E a \in BOOLEAN : ResolveButton(get_next_player, a)
         ]_vars

\* A started game after an accepted and a rejected card, with no card
\* pending: an accept or reject request of the next player finds nothing to
\* resolve.
C15_Witness ==
    /\ variant = "B"
    /\ games
    /\ game_started
    /\ moves = 2
    /\ pending_card = None
    /\ resolve_button_outcome(get_next_player) = "ok"
    /\ \E p \in DOMAIN player_cards : Len(player_cards[p]) = 5

\* C16: Variant B card conservation and finish flag.  After start_game, for
\* every sequence of give_card and receive_card calls, the cards of all
\* hands together are the cards dealt at start (4 * len(players) cards in
\* all), and game_finished is true exactly when winner is set.
C16_ConservationAndFinish ==
    variant = "B" =>
        /\ game_started =>
               LET dealt == Slice(deck, 0, CardsPerPlayer * Len(players))
               IN  /\ \A r \in Cards :
                          SumCount(player_cards, DOMAIN player_cards, r) = Count(dealt, r)
                   /\ SumLen(player_cards, DOMAIN player_cards)
                          = CardsPerPlayer * Len(players)
        /\ game_finished <=> winner # None

\* A game won at its last resolved turn after earlier accepts moved cards:
\* the winner is set, another player holds three cards and one holds five.
C16_Witness ==
    /\ variant = "B"
    /\ game_started
    /\ moves = MaxTurns
    /\ game_finished
    /\ winner # None
    /\ \E p \in DOMAIN player_cards : p # winner /\ Len(player_cards[p]) = 3
    /\ \E p \in DOMAIN player_cards : Len(player_cards[p]) = 5

\* C17: the Variant B pending card is always removable.  In every reachable
\* state of a started game in which pending_card is not None,
\* pending_from_player is the current player and pending_card is in the
\* current player's hand, after every sequence of give and accept/reject
\* requests, repeated gives and a declared winner included.
C17_PendingRemovable ==
    (variant = "B" /\ game_started /\ pending_card # None) =>
        /\ pending_from_player = get_current_player
        /\ Contains(player_cards[get_current_player], pending_card)

\* C18: Variant B hands never run out.  In every reachable state of a
\* started game no player's hand is empty, and while the game is not finished
\* every hand holds at least 2 cards: a giver whose hand shrinks to a single
\* card is declared winner by that same accept, so check_win never meets an
\* empty hand.
C18_HandsNeverRunOut ==
    (variant = "B" /\ game_started) =>
        /\ \A p \in DOMAIN player_cards : Len(player_cards[p]) >= 1
        /\ ~game_finished =>
               \A p \in DOMAIN player_cards : Len(player_cards[p]) >= 2
        /\ \A p \in DOMAIN player_cards :
               Len(player_cards[p]) = 1 => (game_finished /\ winner = p)

\* A game played round the table twice and won by a giver whose hand shrank
\* to a single card; another player holds only two cards.
C18_Witness ==
    /\ variant = "B"
    /\ game_started
    /\ game_finished
    /\ winner # None
    /\ Len(player_cards[winner]) = 1
    /\ \E p \in DOMAIN player_cards : p # winner /\ Len(player_cards[p]) = 2

\* C19: Variant B roster and start.  After any sequence of new-game, join
\* and start requests the player list has no duplicates and at most n
\* entries; start_game succeeds only when at least 4 players have joined and
\* the game is not already started; once started the roster is fixed (later
\* joins are refused), every player of it has a dealt hand, and a repeated
\* start_game returns False without dealing again or changing any hand.
C19_RosterAndStart ==
    /\ [](variant = "B" =>
             /\ \A i, j \in 1..Len(players) : players[i] = players[j] => i = j
             /\ Len(players) <= n
             /\ start_game_ok => (Len(players) >= MinPlayers /\ ~game_started)
             /\ game_started =>
                    /\ Len(players) >= MinPlayers
                    /\ DOMAIN player_cards = SetOf(players)
                    /\ \A p \in SetOf(players) : Len(player_cards[p]) >= 1
                    /\ ~start_game_ok
                    /\ \A u \in Users : join_game_outcome(u) # "ok"
             /\ (game_started /\ moves = 0) =>
                    \A p \in SetOf(players) : Len(player_cards[p]) = CardsPerPlayer)
    /\ [][ variant = "B" =>
               /\ (game_started' /\ ~game_started) =>
                      (start_game_ok /\ Len(players) >= MinPlayers)
               /\ (games /\ game_started) =>
                      /\ players' = players
                      /\ \/ UNCHANGED <<player_cards, game_started>>
                         \/ ~StartGame
         ]_vars

\* A started game of five card sets with five players at the table, a card
\* given and a turn resolved: /join and /startgame requests still arrive.
C19_Witness ==
    /\ variant = "B"
    /\ games
    /\ game_started
    /\ n = 5
    /\ Len(players) = 5
    /\ moves >= 1
    /\ pending_card # None

====
